---- MODULE Spec2Model ----
(***************************************************************************)
(* IELTS simulator: the App workflow state machine (welcome, generating,   *)
(* test, evaluating, results), the WelcomeScreen form, the TestScreen      *)
(* answer capture and the AI gateway calls (geminiService).                *)
(*                                                                         *)
(* Conventions of the model                                                *)
(*  - a nullable object is the record Null when it is null; a nullable     *)
(*    string is the string "null"; a nullable array is wrapped in a        *)
(*    record [items |-> <<...>>];                                          *)
(*  - a URL is a sequence of lexical tokens ("https://", "www.", a host,   *)
(*    "/", path text, "\n"); '' is the empty sequence;                     *)
(*  - a transcript is [lead, core, trail]: the numbers of leading          *)
(*    whitespace characters, of characters from the first to the last      *)
(*    non-whitespace character, and of trailing whitespace characters;     *)
(*  - band scores are in hundredths of a band (7.5 is 750);                *)
(*  - a component's local state exists only while it is mounted; it is     *)
(*    set to its useState initial values when the component is mounted     *)
(*    and when it is unmounted.                                            *)
(***************************************************************************)
EXTENDS Integers, Sequences, FiniteSets, TLC

VARIABLES
  appState,           \* App: 'welcome' | 'generating' | 'test' | 'evaluating' | 'results'
  evaluation,         \* App: IEvaluation | null
  practicePlan,       \* App: IPracticeItem[] | null
  comprehensiveTest,  \* App: IComprehensiveTest | null
  userAnswers,        \* App: Record<string, any> | null
  videoUrl,           \* App: string
  error,              \* App: string | null
  testType,           \* App: TestType | null
  wsVideoUrl,         \* WelcomeScreen: videoUrl input
  wsTranscript,       \* WelcomeScreen: transcript input
  validationError,    \* WelcomeScreen: validationError
  currentSection,     \* TestScreen: currentSection
  answers,            \* TestScreen: answers
  isListening,        \* useSpeechToText: isListening
  transcript,         \* useSpeechToText: transcript (the speaking answer buffer)
  currentSpeakingQuestionIndex, \* TestScreen: currentSpeakingQuestionIndex
  recognizing,        \* SpeechRecognition instance: "idle" | "running" | "stopping"
  recognitionQuestion, \* the speaking pointer when recognition.start() was called; -1 when idle
  inflight,           \* requests sent to the generative service and not yet answered
  gatewayLog,         \* gateway operations invoked, and their outcomes, in the current phase
  planEvaluation,     \* getPracticePlan on its own: the argument
  planStage,          \* getPracticePlan on its own: "init" | "awaiting" | "returned" | "thrown"
  planRequests,       \* getPracticePlan on its own: requests sent to the service
  planResult,         \* getPracticePlan on its own: the value returned
  isGeneratingPdf,    \* EvaluationScreen: isGeneratingPdf
  isPdfReady,         \* EvaluationScreen: isPdfReady
  pdfTools,           \* the html2canvas and jspdf scripts: "loading" | "loaded"
  pdfExports,         \* html2canvas renderings started and not yet settled
  markdownFile,       \* the last report downloaded by handleSaveAsMarkdown
  tableData,          \* TableRenderer on its own: the data prop
  tableResult         \* TableRenderer on its own: what it rendered

appVars == <<appState, evaluation, practicePlan, comprehensiveTest, userAnswers,
             videoUrl, error, testType>>
wsVars == <<wsVideoUrl, wsTranscript, validationError>>
tsVars == <<currentSection, answers, isListening, transcript,
            currentSpeakingQuestionIndex, recognizing, recognitionQuestion>>
gwVars == <<inflight, gatewayLog>>
planVars == <<planEvaluation, planStage, planRequests, planResult>>
esVars == <<isGeneratingPdf, isPdfReady, pdfTools, pdfExports, markdownFile>>
tableVars == <<tableData, tableResult>>
vars == <<appVars, wsVars, tsVars, gwVars, planVars, esVars, tableVars>>

----------------------------------------------------------------------------
(* Bounds of the model *)

MaxQuestions == 1    \* listening / reading questions of a generated section
MaxSpeaking == 2     \* speaking questions of a generated test
MaxCriteria == 2     \* criteria of an evaluation given to getPracticePlan on its own

(* Program constants *)

MinTranscriptLength == 50
BandThreshold == 750

Null == [null |-> TRUE]
NullStr == "null"

TestTypes == {"full", "listening", "reading", "writing", "speaking"}
\* mutant of Sections: reading and writing change places
SectionsWritingFirst == <<"listening", "writing", "reading", "speaking">>

Sections == <<"listening", "reading", "writing", "speaking">>

UrlError == "Please enter a valid YouTube URL."
TranscriptError == "Please paste the video transcript. It should be at least 50 characters long."
GenerationError == "Failed to generate the test. Please check the video URL or try again."
EvaluationError == "An error occurred during evaluation. Please try again."
MissingContentError == "Test content is missing. Please restart."

----------------------------------------------------------------------------
(* WelcomeScreen: the form and its validation *)

DefaultVideoUrl == <<"https://", "youtu.be", "/", "p1yCOdp2vs0?si=pKV47XzCq44ERMGO">>
EmptyTranscript == [lead |-> 0, core |-> 0, trail |-> 0]

\* what the user can type into the URL field
UrlInputs ==
  { <<>>,
    DefaultVideoUrl,
    <<"www.", "youtube.com", "/", "watch?v=abc">>,
    <<"https://", "youtube.com", "/">>,
    <<"https://", "vimeo.com", "/", "abc">>,
    <<"youtube", "/", "abc", "\n">> }

\* what the user can type into the transcript field
TranscriptInputs ==
  { EmptyTranscript,
    [lead |-> 0, core |-> MinTranscriptLength - 1, trail |-> 0],
    [lead |-> 1, core |-> MinTranscriptLength - 1, trail |-> 1],
    [lead |-> 0, core |-> MinTranscriptLength, trail |-> 0],
    [lead |-> 2, core |-> MinTranscriptLength + 1, trail |-> 1],
    [lead |-> MinTranscriptLength, core |-> 0, trail |-> MinTranscriptLength] }

\* /^(https?:\/\/)?(www\.)?(youtube\.com|youtu\.?be)\/.+$/ on a token sequence
YoutubeRegexTest(url) ==
  LET afterScheme == IF Len(url) > 0 /\ Head(url) \in {"http://", "https://"}
                     THEN Tail(url) ELSE url
      rest == IF Len(afterScheme) > 0 /\ Head(afterScheme) = "www."
              THEN Tail(afterScheme) ELSE afterScheme
  IN /\ Len(rest) >= 3
     /\ rest[1] \in {"youtube.com", "youtu.be", "youtube"}
     /\ rest[2] = "/"
     /\ \A i \in 3..Len(rest) : rest[i] # "\n"

\* mutant of TrimLength: transcript.length, without trim()
RawLength(t) == t.lead + t.core + t.trail

\* transcript.trim().length
TrimLength(t) == t.core

WelcomeDefaults ==
  /\ wsVideoUrl' = DefaultVideoUrl
  /\ wsTranscript' = EmptyTranscript
  /\ validationError' = ""

----------------------------------------------------------------------------
(* types.ts: the generated test, the evaluation and the practice plan *)

NoImage == "undefined"

QuestionText(section, i) == <<section, i>>

QuestionList(section, n) == [i \in 1..n |-> QuestionText(section, i)]

\* an IComprehensiveTest with nL listening, nR reading and nS speaking questions
MkTest(nL, nR, chartType, hasWriting, nS) ==
  [listening |-> [questions |-> QuestionList("listening", nL)],
   reading |-> [transcript |-> "passage", questions |-> QuestionList("reading", nR)],
   writing |-> [task1 |-> [prompt |-> IF hasWriting THEN "task 1 prompt" ELSE "",
                           chartData |-> [type |-> chartType, title |-> "chart",
                                          data |-> "Year,Revenue"],
                           chartImage |-> NoImage],
                task2 |-> IF hasWriting THEN "task 2 prompt" ELSE ""],
   speaking |-> QuestionList("speaking", nS)]

\* the tests the service can generate (whatever the requested test type): one with
\* every section, one with listening and reading questions alone, one with
\* speaking questions alone
TestContents ==
  { MkTest(1, 1, "bar chart", TRUE, 1),
    MkTest(MaxQuestions, MaxQuestions, "table", FALSE, 0),
    MkTest(0, 0, "table", TRUE, MaxSpeaking) }

Criterion(name, score, feedback) ==
  [criterion |-> name, score |-> score, feedback |-> feedback]

MkEvaluation(overall, scores) ==
  [overallBandScore |-> overall, detailedScores |-> scores, summary |-> "summary",
   improvedAnswers |-> [writingTask1 |-> "model 1", writingTask2 |-> "model 2",
                        speaking |-> <<>>]]

\* the evaluations the service can return to the workflow
Evaluations ==
  { MkEvaluation(800, <<Criterion("Writing", BandThreshold, "solid")>>),
    MkEvaluation(650, <<Criterion("Writing", 800, "solid"),
                        Criterion("Speaking - Fluency and Coherence", 600, "hesitant")>>) }

PracticeItem(area, n) ==
  [area |-> area, title |-> <<"title", n>>, description |-> <<"description", n>>,
   exercise |-> <<"exercise", n>>]

\* the practice-plan arrays the service can return: n items, n in 0..4
ServicePlan(n) == [i \in 1..n |-> PracticeItem("weak area", i)]

MaintainExcellence ==
  << [area |-> "Overall Excellence",
      title |-> "Maintain Your High Standard",
      description |-> "Your performance is already at a high level.",
      exercise |-> "Challenge yourself with complex abstract topics."] >>

----------------------------------------------------------------------------
(* geminiService: the four gateway operations.  A service response is      *)
(* [kind |-> "json", value |-> v] (text that parses to v),                 *)
(* [kind |-> "garbage"] (text that JSON.parse rejects),                    *)
(* [kind |-> "images", images |-> <<...>>] or [kind |-> "rejected"] (the   *)
(* request promise rejects).  An outcome is [ok |-> TRUE, value |-> v]     *)
(* (the operation's promise resolves to v) or [ok |-> FALSE] (it rejects). *)

Resolved(v) == [ok |-> TRUE, value |-> v]
Rejected == [ok |-> FALSE]

GenerateResponses ==
  {[kind |-> "json", value |-> tc] : tc \in TestContents}
    \cup {[kind |-> "garbage"], [kind |-> "rejected"]}

ChartResponses ==
  {[kind |-> "images", images |-> <<"png">>], [kind |-> "images", images |-> <<>>],
   [kind |-> "rejected"]}

EvaluateResponses ==
  {[kind |-> "json", value |-> e] : e \in Evaluations}
    \cup {[kind |-> "garbage"], [kind |-> "rejected"]}

PlanResponses ==
  {[kind |-> "json", value |-> ServicePlan(n)] : n \in {1, 3}}
    \cup {[kind |-> "garbage"], [kind |-> "rejected"]}

\* response.text.trim(), JSON.parse: resolves to the parsed value or throws
ParseJson(resp) == IF resp.kind = "json" THEN Resolved(resp.value) ELSE Rejected

GenerateComprehensiveTestResult(resp) == ParseJson(resp)

\* mutant of GenerateChartImageResult: no image is not an error
GenerateChartImageResultLenient(resp) ==
  IF resp.kind = "images"
  THEN Resolved(IF Len(resp.images) > 0 THEN resp.images[1] ELSE NoImage)
  ELSE Rejected

GenerateChartImageResult(resp) ==
  IF resp.kind = "images" /\ Len(resp.images) > 0
  THEN Resolved(resp.images[1])
  ELSE Rejected

EvaluateComprehensiveTestResult(resp) == ParseJson(resp)

\* mutant of Weaknesses: s.score <= 7.5
WeaknessesInclusive(e) == SelectSeq(e.detailedScores, LAMBDA s : s.score <= BandThreshold)

\* evaluation.detailedScores.filter(s => s.score < 7.5)
Weaknesses(e) == SelectSeq(e.detailedScores, LAMBDA s : s.score < BandThreshold)

\* mutant of PlanPrompt: every criterion is listed
PlanPromptAll(e) == [overall |-> e.overallBandScore, weakest |-> e.detailedScores]

\* the prompt of getPracticePlan: the overall score and the weakest areas
PlanPrompt(e) == [overall |-> e.overallBandScore, weakest |-> Weaknesses(e)]

GetPracticePlanResult(resp) == ParseJson(resp)

\* gatewayLog entries: a gateway operation is called; the service answers its request
\* with parseable JSON ("json"), unparseable text ("garbage"), an image ("image"),
\* no image ("no image") or a rejection ("rejected")
Called(op) == <<op, "call">>

Answered(op, resp) ==
  <<op, IF resp.kind = "images"
        THEN IF Len(resp.images) > 0 THEN "image" ELSE "no image"
        ELSE resp.kind>>

RemoveAt(s, i) == [j \in 1..(Len(s) - 1) |-> IF j < i THEN s[j] ELSE s[j + 1]]

\* mutant of GetPracticePlanStart: the evaluation held by App, when there is one,
\* is read in place of the argument
GetPracticePlanStartStale(e) ==
  LET held == IF evaluation # Null THEN evaluation ELSE e
  IN IF Len(Weaknesses(held)) = 0
     THEN [local |-> TRUE, value |-> MaintainExcellence]
     ELSE [local |-> FALSE, request |-> [op |-> "plan", prompt |-> PlanPrompt(held)]]

\* getPracticePlan up to its first await: the fixed plan, or a request to the service
GetPracticePlanStart(e) ==
  IF Len(Weaknesses(e)) = 0
  THEN [local |-> TRUE, value |-> MaintainExcellence]
  ELSE [local |-> FALSE, request |-> [op |-> "plan", prompt |-> PlanPrompt(e)]]

----------------------------------------------------------------------------
(* App.renderContent: which screen is mounted in which workflow state *)

\* mutant of WelcomeScreenShown: the form stays on screen while the test is generated
WelcomeScreenShownWhileGenerating(state) == state \in {"welcome", "generating"}

WelcomeScreenShown(state) == state = "welcome"

\* mutant of TestScreenShown: the test stays on screen while it is evaluated
TestScreenShownWhileEvaluating(state) == state \in {"test", "evaluating"}

TestScreenShown(state) == state = "test"

\* TestScreen: useState initial values
GetInitialSection(type) == IF type = "full" THEN "listening" ELSE type

EmptyMap == [i \in {} |-> ""]

InitialAnswers ==
  [listening |-> EmptyMap, reading |-> EmptyMap,
   writing |-> [task1 |-> "", task2 |-> ""], speaking |-> <<>>]

TestScreenState(section) ==
  /\ currentSection' = section
  /\ answers' = InitialAnswers
  /\ isListening' = FALSE
  /\ transcript' = ""
  /\ currentSpeakingQuestionIndex' = 0
  /\ recognizing' = "idle"
  /\ recognitionQuestion' = -1

\* setAppState(next) and the render that follows it: a screen that stays shown
\* keeps its state, a screen that appears starts from its initial state
Goto(next) ==
  /\ appState' = next
  /\ IF WelcomeScreenShown(next) /\ WelcomeScreenShown(appState)
     THEN UNCHANGED wsVars
     ELSE WelcomeDefaults
  /\ IF TestScreenShown(next)
     THEN IF TestScreenShown(appState)
          THEN UNCHANGED tsVars
          ELSE TestScreenState(GetInitialSection(testType))
     ELSE TestScreenState("listening")

----------------------------------------------------------------------------
(* WelcomeScreen *)

SetVideoUrl(url) ==
  /\ WelcomeScreenShown(appState)
  /\ wsVideoUrl' = url
  /\ UNCHANGED <<wsTranscript, validationError, appVars, tsVars, gwVars, planVars, esVars, tableVars>>

SetTranscript(text) ==
  /\ WelcomeScreenShown(appState)
  /\ wsTranscript' = text
  /\ UNCHANGED <<wsVideoUrl, validationError, appVars, tsVars, gwVars, planVars, esVars, tableVars>>

\* App.startTest up to its first await
StartTest(url, text, type) ==
  /\ Goto("generating")
  /\ error' = NullStr
  /\ videoUrl' = url
  /\ testType' = type
  /\ inflight' = Append(inflight, [op |-> "generate", videoUrl |-> url,
                                   transcript |-> text, testType |-> type])
  /\ gatewayLog' = <<Called("generate")>>
  /\ UNCHANGED <<evaluation, practicePlan, comprehensiveTest, userAnswers>>

\* WelcomeScreen.handleStart: a click on one of the five test-type buttons
HandleStart(type) ==
  /\ WelcomeScreenShown(appState)
  /\ IF ~YoutubeRegexTest(wsVideoUrl)
     THEN /\ validationError' = UrlError
          /\ UNCHANGED <<wsVideoUrl, wsTranscript, appVars, tsVars, gwVars>>
     ELSE IF TrimLength(wsTranscript) < MinTranscriptLength
          THEN /\ validationError' = TranscriptError
               /\ UNCHANGED <<wsVideoUrl, wsTranscript, appVars, tsVars, gwVars>>
          ELSE StartTest(wsVideoUrl, wsTranscript, type)
  /\ UNCHANGED <<planVars, esVars, tableVars>>

----------------------------------------------------------------------------
(* App.startTest after its awaits *)

\* mutant of NeedsChartImage: the chart type is not looked at
NeedsChartImageAlways(testContent) == TRUE

\* testContent.writing?.task1.chartData && chartData.type !== 'table'
\* (chartData is required by the response schema: it is always present)
NeedsChartImage(testContent) == testContent.writing.task1.chartData.type # "table"

\* setComprehensiveTest(testContent); setAppState('test')
EnterTest(testContent) ==
  /\ comprehensiveTest' = testContent
  /\ Goto("test")
  /\ UNCHANGED <<evaluation, practicePlan, userAnswers, videoUrl, error, testType>>

\* mutant of GenerationFailed: the catch block of handleTestComplete, copied
GenerationFailedToTest ==
  /\ error' = GenerationError
  /\ Goto("test")
  /\ UNCHANGED <<evaluation, practicePlan, comprehensiveTest, userAnswers, videoUrl, testType>>

\* the catch block of startTest
GenerationFailed ==
  /\ error' = GenerationError
  /\ Goto("welcome")
  /\ UNCHANGED <<evaluation, practicePlan, comprehensiveTest, userAnswers, videoUrl, testType>>

\* the service answers generateComprehensiveTest
GenerateReturns ==
  \E i \in DOMAIN inflight, resp \in GenerateResponses :
    /\ inflight[i].op = "generate"
    /\ LET out == GenerateComprehensiveTestResult(resp)
           rest == RemoveAt(inflight, i)
       IN IF ~out.ok
          THEN /\ GenerationFailed
               /\ inflight' = rest
               /\ gatewayLog' = Append(gatewayLog, Answered("generate", resp))
          ELSE IF NeedsChartImage(out.value)
               THEN /\ inflight' = Append(rest, [op |-> "chart", testContent |-> out.value])
                    /\ gatewayLog' = gatewayLog \o <<Answered("generate", resp), Called("chart")>>
                    /\ UNCHANGED <<appVars, wsVars, tsVars>>
               ELSE /\ EnterTest(out.value)
                    /\ inflight' = rest
                    /\ gatewayLog' = Append(gatewayLog, Answered("generate", resp))
    /\ UNCHANGED <<planVars, esVars, tableVars>>

\* the service answers generateChartImage
ChartReturns ==
  \E i \in DOMAIN inflight, resp \in ChartResponses :
    /\ inflight[i].op = "chart"
    /\ LET out == GenerateChartImageResult(resp)
           rest == RemoveAt(inflight, i)
       IN IF ~out.ok
          THEN /\ GenerationFailed
               /\ inflight' = rest
               /\ gatewayLog' = Append(gatewayLog, Answered("chart", resp))
          ELSE /\ EnterTest([inflight[i].testContent
                               EXCEPT !.writing.task1.chartImage = out.value])
               /\ inflight' = rest
               /\ gatewayLog' = Append(gatewayLog, Answered("chart", resp))
    /\ UNCHANGED <<planVars, esVars, tableVars>>

----------------------------------------------------------------------------
(* EvaluationScreen: its local state, and TableRenderer when it is not used *)

\* useState initial values of EvaluationScreen; nothing was exported yet
EvaluationScreenInitial ==
  /\ isGeneratingPdf = FALSE
  /\ isPdfReady = FALSE
  /\ pdfTools = "loading"
  /\ pdfExports = <<>>
  /\ markdownFile = Null

\* EvaluationScreen leaves the screen: its state is lost, the renderings it started
\* go on ("stale": their callbacks set the state of a component that is gone)
EvaluationScreenUnmounts ==
  /\ isGeneratingPdf' = FALSE
  /\ isPdfReady' = FALSE
  /\ pdfExports' = [i \in DOMAIN pdfExports |-> "stale"]
  /\ UNCHANGED <<pdfTools, markdownFile>>

TableRendererUnused ==
  /\ tableData = Null
  /\ tableResult = Null

----------------------------------------------------------------------------
(* App.handleTestComplete and App.restartTest *)

\* mutant of IsSubjective: only 'listening' skips the evaluation
IsSubjectiveButListening(type) == type # "listening"

\* mutant of IsSubjective: 'full' is forgotten
IsSubjectiveSingle(type) == type \in {"writing", "speaking"}

\* testType === 'writing' || testType === 'speaking' || testType === 'full'
IsSubjective(type) == type \in {"writing", "speaking", "full"}

\* App.handleTestComplete up to its first await
HandleTestComplete(ans) ==
  IF comprehensiveTest = Null \/ testType = NullStr
  THEN /\ error' = MissingContentError
       /\ Goto("welcome")
       /\ UNCHANGED <<evaluation, practicePlan, comprehensiveTest, userAnswers,
                      videoUrl, testType, gwVars>>
  ELSE /\ userAnswers' = ans
       /\ error' = NullStr
       /\ UNCHANGED <<comprehensiveTest, videoUrl, testType>>
       /\ IF IsSubjective(testType)
          THEN /\ Goto("evaluating")
               /\ inflight' = Append(inflight,
                    [op |-> "evaluate",
                     payload |-> [testContent |-> comprehensiveTest, userAnswers |-> ans]])
               /\ gatewayLog' = <<Called("evaluate")>>
               /\ UNCHANGED <<evaluation, practicePlan>>
          ELSE /\ evaluation' = Null
               /\ practicePlan' = Null
               /\ Goto("results")
               /\ gatewayLog' = <<>>
               /\ UNCHANGED inflight

\* mutant of EvaluationFailed: the catch block of startTest, copied
EvaluationFailedToWelcome ==
  /\ error' = EvaluationError
  /\ Goto("welcome")

\* the catch block of handleTestComplete
EvaluationFailed ==
  /\ error' = EvaluationError
  /\ Goto("test")

\* setPracticePlan(practiceResult); setAppState('results')
EnterResults(practiceResult) ==
  /\ practicePlan' = [items |-> practiceResult]
  /\ Goto("results")
  /\ UNCHANGED error

\* the service answers evaluateComprehensiveTest; getPracticePlan is called on success
EvaluateReturns ==
  \E i \in DOMAIN inflight, resp \in EvaluateResponses :
    /\ inflight[i].op = "evaluate"
    /\ LET out == EvaluateComprehensiveTestResult(resp)
           rest == RemoveAt(inflight, i)
       IN IF ~out.ok
          THEN /\ EvaluationFailed
               /\ inflight' = rest
               /\ gatewayLog' = Append(gatewayLog, Answered("evaluate", resp))
               /\ UNCHANGED <<evaluation, practicePlan>>
          ELSE /\ evaluation' = out.value
               /\ LET plan == GetPracticePlanStart(out.value)
                  IN IF plan.local
                     THEN /\ EnterResults(plan.value)
                          /\ inflight' = rest
                          /\ gatewayLog' = gatewayLog \o <<Answered("evaluate", resp), Called("plan"),
                                                         <<"plan", "local">> >>
                     ELSE /\ inflight' = Append(rest, plan.request)
                          /\ gatewayLog' = gatewayLog \o <<Answered("evaluate", resp), Called("plan")>>
                          /\ UNCHANGED <<appState, practicePlan, error, wsVars, tsVars>>
    /\ UNCHANGED <<comprehensiveTest, userAnswers, videoUrl, testType, planVars, esVars, tableVars>>

\* the service answers the request of getPracticePlan
PlanReturns ==
  \E i \in DOMAIN inflight, resp \in PlanResponses :
    /\ inflight[i].op = "plan"
    /\ LET out == GetPracticePlanResult(resp)
       IN IF ~out.ok
          THEN /\ EvaluationFailed
               /\ gatewayLog' = Append(gatewayLog, Answered("plan", resp))
               /\ UNCHANGED practicePlan
          ELSE /\ EnterResults(out.value)
               /\ gatewayLog' = Append(gatewayLog, Answered("plan", resp))
    /\ inflight' = RemoveAt(inflight, i)
    /\ UNCHANGED <<evaluation, comprehensiveTest, userAnswers, videoUrl, testType, planVars, esVars, tableVars>>

\* EvaluationScreen is rendered, with its 'Take Another Test' button
EvaluationScreenShown ==
  appState = "results" /\ comprehensiveTest # Null /\ userAnswers # Null

\* mutant of RestartTest: the submission's inputs are not cleared
RestartTestKeepsInputs ==
  /\ EvaluationScreenShown
  /\ Goto("welcome")
  /\ error' = NullStr
  /\ evaluation' = Null
  /\ practicePlan' = Null
  /\ comprehensiveTest' = Null
  /\ userAnswers' = Null
  /\ EvaluationScreenUnmounts
  /\ UNCHANGED <<videoUrl, testType, gwVars, planVars, tableVars>>

\* App.restartTest, from the onRestart button of EvaluationScreen
RestartTest ==
  /\ EvaluationScreenShown
  /\ Goto("welcome")
  /\ error' = NullStr
  /\ evaluation' = Null
  /\ practicePlan' = Null
  /\ comprehensiveTest' = Null
  /\ userAnswers' = Null
  /\ videoUrl' = <<>>
  /\ testType' = NullStr
  /\ EvaluationScreenUnmounts
  /\ UNCHANGED <<gwVars, planVars, tableVars>>

----------------------------------------------------------------------------
(* TestScreen *)

Texts == {"", "typed"}
SpeechTexts == {"spoken"}

\* case 'test' of App.renderContent: TestScreen is rendered
TestScreenRendered ==
  /\ TestScreenShown(appState)
  /\ comprehensiveTest # Null
  /\ videoUrl # <<>>
  /\ testType # NullStr

IndexOf(seq, x) == CHOOSE i \in DOMAIN seq : seq[i] = x

\* mutant of HandleAnswerChange: the answers of the section are not spread
HandleAnswerChangeReplaces(section, index, value) ==
  /\ TestScreenRendered
  /\ currentSection = section
  /\ index \in 0..(Len(comprehensiveTest[section].questions) - 1)
  /\ answers' = [answers EXCEPT ![section] = (index :> value)]
  /\ UNCHANGED <<currentSection, isListening, transcript, currentSpeakingQuestionIndex,
                 recognizing, recognitionQuestion, appVars, wsVars, gwVars, planVars, esVars, tableVars>>

\* TestScreen.handleAnswerChange, from the input of question `index` of a section
HandleAnswerChange(section, index, value) ==
  /\ TestScreenRendered
  /\ currentSection = section
  /\ index \in 0..(Len(comprehensiveTest[section].questions) - 1)
  /\ answers' = [answers EXCEPT ![section] = (index :> value) @@ @]
  /\ UNCHANGED <<currentSection, isListening, transcript, currentSpeakingQuestionIndex,
                 recognizing, recognitionQuestion, appVars, wsVars, gwVars, planVars, esVars, tableVars>>

\* the writing section shows its two text areas
WritingRendered ==
  /\ TestScreenRendered
  /\ currentSection = "writing"
  /\ (comprehensiveTest.writing.task1.prompt # "" \/ comprehensiveTest.writing.task2 # "")

\* TestScreen.handleWritingChange
HandleWritingChange(task, value) ==
  /\ WritingRendered
  /\ answers' = [answers EXCEPT !.writing[task] = value]
  /\ UNCHANGED <<currentSection, isListening, transcript, currentSpeakingQuestionIndex,
                 recognizing, recognitionQuestion, appVars, wsVars, gwVars, planVars, esVars, tableVars>>

\* TestScreen.nextSection, from the button shown outside the speaking section
NextSection ==
  /\ TestScreenRendered
  /\ currentSection # "speaking"
  /\ IF testType # "full"
     THEN HandleTestComplete(answers)
     ELSE /\ LET currentIndex == IndexOf(Sections, currentSection)
             IN currentSection' = IF currentIndex < Len(Sections)
                                  THEN Sections[currentIndex + 1]
                                  ELSE currentSection
          /\ UNCHANGED <<answers, isListening, transcript, currentSpeakingQuestionIndex,
                         recognizing, recognitionQuestion, appVars, wsVars, gwVars>>
  /\ UNCHANGED <<planVars, esVars, tableVars>>

\* the speaking section shows the current question, the editor and its two buttons
SpeakingRendered ==
  /\ TestScreenRendered
  /\ currentSection = "speaking"
  /\ Len(comprehensiveTest.speaking) > 0
  /\ currentSpeakingQuestionIndex + 1 \in DOMAIN comprehensiveTest.speaking

\* mutant of IsLastSpeakingQuestion: no question is the last one
IsLastSpeakingQuestionNever == FALSE

\* mutant of IsLastSpeakingQuestion: compared with the length, not the last index
IsLastSpeakingQuestionOffByOne ==
  currentSpeakingQuestionIndex = Len(comprehensiveTest.speaking)

IsLastSpeakingQuestion ==
  currentSpeakingQuestionIndex = Len(comprehensiveTest.speaking) - 1

\* useSpeechToText.startListening / stopListening, from TestScreen.toggleRecording
ToggleRecording ==
  /\ SpeakingRendered
  /\ IF isListening
     THEN /\ isListening' = FALSE
          /\ recognizing' = "stopping"
          /\ UNCHANGED recognitionQuestion
          /\ UNCHANGED transcript
     ELSE /\ transcript' = ""
          /\ isListening' = TRUE
          /\ recognizing' = "running"
          /\ recognitionQuestion' = currentSpeakingQuestionIndex
  /\ UNCHANGED <<currentSection, answers, currentSpeakingQuestionIndex,
                 appVars, wsVars, gwVars, planVars, esVars, tableVars>>

\* recognitionInstance.onresult: the recognizer delivers the transcript so far
OnResult(text) ==
  /\ TestScreenRendered
  /\ recognizing \in {"running", "stopping"}
  /\ transcript' = text
  /\ UNCHANGED <<currentSection, answers, isListening, currentSpeakingQuestionIndex,
                 recognizing, recognitionQuestion, appVars, wsVars, gwVars, planVars, esVars, tableVars>>

\* the recognizer ends after stop(): no result follows
RecognitionEnds ==
  /\ TestScreenRendered
  /\ recognizing = "stopping"
  /\ recognizing' = "idle"
  /\ recognitionQuestion' = -1
  /\ UNCHANGED <<currentSection, answers, isListening, transcript,
                 currentSpeakingQuestionIndex, appVars, wsVars, gwVars, planVars, esVars, tableVars>>

\* onChange of the answer editor, which is disabled while recording
EditTranscript(value) ==
  /\ SpeakingRendered
  /\ ~isListening
  /\ transcript' = value
  /\ UNCHANGED <<currentSection, answers, isListening, currentSpeakingQuestionIndex,
                 recognizing, recognitionQuestion, appVars, wsVars, gwVars, planVars, esVars, tableVars>>

\* mutant of HandleNextSpeakingQuestion: the completion is signalled with the
\* answers of the first render
HandleNextSpeakingQuestionStale ==
  /\ SpeakingRendered
  /\ ~isListening
  /\ LET question == comprehensiveTest.speaking[currentSpeakingQuestionIndex + 1]
         newAnswer == [question |-> question, answer |-> transcript]
         updatedSpeakingAnswers == Append(answers.speaking, newAnswer)
     IN IF IsLastSpeakingQuestion
        THEN HandleTestComplete([InitialAnswers EXCEPT !.speaking = updatedSpeakingAnswers])
        ELSE /\ answers' = [answers EXCEPT !.speaking = updatedSpeakingAnswers]
             /\ currentSpeakingQuestionIndex' = currentSpeakingQuestionIndex + 1
             /\ transcript' = ""
             /\ UNCHANGED <<currentSection, isListening, recognizing, recognitionQuestion,
                            appVars, wsVars, gwVars>>
  /\ UNCHANGED <<planVars, esVars, tableVars>>

\* TestScreen.handleNextSpeakingQuestion, from the button that is disabled while recording
HandleNextSpeakingQuestion ==
  /\ SpeakingRendered
  /\ ~isListening
  /\ LET question == comprehensiveTest.speaking[currentSpeakingQuestionIndex + 1]
         newAnswer == [question |-> question, answer |-> transcript]
         updatedSpeakingAnswers == Append(answers.speaking, newAnswer)
     IN IF IsLastSpeakingQuestion
        THEN HandleTestComplete([answers EXCEPT !.speaking = updatedSpeakingAnswers])
        ELSE /\ answers' = [answers EXCEPT !.speaking = updatedSpeakingAnswers]
             /\ currentSpeakingQuestionIndex' = currentSpeakingQuestionIndex + 1
             /\ transcript' = ""
             /\ UNCHANGED <<currentSection, isListening, recognizing, recognitionQuestion,
                            appVars, wsVars, gwVars>>
  /\ UNCHANGED <<planVars, esVars, tableVars>>

----------------------------------------------------------------------------
(* The application *)

Init ==
  /\ appState = "welcome"
  /\ evaluation = Null
  /\ practicePlan = Null
  /\ comprehensiveTest = Null
  /\ userAnswers = Null
  /\ videoUrl = <<>>
  /\ error = NullStr
  /\ testType = NullStr
  /\ wsVideoUrl = DefaultVideoUrl
  /\ wsTranscript = EmptyTranscript
  /\ validationError = ""
  /\ currentSection = "listening"
  /\ answers = InitialAnswers
  /\ isListening = FALSE
  /\ transcript = ""
  /\ currentSpeakingQuestionIndex = 0
  /\ recognizing = "idle"
  /\ recognitionQuestion = -1
  /\ inflight = <<>>
  /\ gatewayLog = <<>>
  /\ planEvaluation = Null
  /\ planStage = "unused"
  /\ planRequests = <<>>
  /\ planResult = Null
  /\ EvaluationScreenInitial
  /\ TableRendererUnused

Next ==
  \/ \E url \in UrlInputs : SetVideoUrl(url)
  \/ \E text \in TranscriptInputs : SetTranscript(text)
  \/ \E type \in TestTypes : HandleStart(type)
  \/ GenerateReturns
  \/ ChartReturns
  \/ \E section \in {"listening", "reading"}, index \in 0..(MaxQuestions - 1), value \in Texts :
       HandleAnswerChange(section, index, value)
  \/ \E task \in {"task1", "task2"}, value \in Texts : HandleWritingChange(task, value)
  \/ NextSection
  \/ ToggleRecording
  \/ \E text \in SpeechTexts : OnResult(text)
  \/ RecognitionEnds
  \/ \E value \in Texts : EditTranscript(value)
  \/ HandleNextSpeakingQuestion
  \/ EvaluateReturns
  \/ PlanReturns
  \/ RestartTest

Spec == Init /\ [][Next]_vars

----------------------------------------------------------------------------
(* getPracticePlan on its own, applied to every evaluation of a bounded set *)

ScoreInputs == {BandThreshold - 50, BandThreshold - 1, BandThreshold, BandThreshold + 150}

CriterionInputs ==
  {Criterion(name, score, "feedback") :
     name \in {"Writing", "Speaking - Fluency and Coherence"}, score \in ScoreInputs}

SeqsUpTo(S, n) == UNION {[1..k -> S] : k \in 0..n}

PlanEvaluations == {MkEvaluation(700, scores) : scores \in SeqsUpTo(CriterionInputs, MaxCriteria)}

PlanServiceResponses ==
  {[kind |-> "json", value |-> ServicePlan(n)] : n \in 0..4}
    \cup {[kind |-> "garbage"], [kind |-> "rejected"]}

PlanInit ==
  /\ appState = "welcome"
  /\ evaluation = Null
  /\ practicePlan = Null
  /\ comprehensiveTest = Null
  /\ userAnswers = Null
  /\ videoUrl = <<>>
  /\ error = NullStr
  /\ testType = NullStr
  /\ wsVideoUrl = DefaultVideoUrl
  /\ wsTranscript = EmptyTranscript
  /\ validationError = ""
  /\ currentSection = "listening"
  /\ answers = InitialAnswers
  /\ isListening = FALSE
  /\ transcript = ""
  /\ currentSpeakingQuestionIndex = 0
  /\ recognizing = "idle"
  /\ recognitionQuestion = -1
  /\ inflight = <<>>
  /\ gatewayLog = <<>>
  /\ planEvaluation \in PlanEvaluations
  /\ planStage = "init"
  /\ planRequests = <<>>
  /\ planResult = Null
  /\ EvaluationScreenInitial
  /\ TableRendererUnused

\* getPracticePlan(planEvaluation) is called and runs to its return or its await
PlanCalled ==
  /\ planStage = "init"
  /\ LET plan == GetPracticePlanStart(planEvaluation)
     IN IF plan.local
        THEN /\ planStage' = "returned"
             /\ planResult' = [items |-> plan.value]
             /\ UNCHANGED planRequests
        ELSE /\ planStage' = "awaiting"
             /\ planRequests' = Append(planRequests, plan.request)
             /\ UNCHANGED planResult
  /\ UNCHANGED <<planEvaluation, appVars, wsVars, tsVars, gwVars, esVars, tableVars>>

\* the service answers, and getPracticePlan returns the parsed array or throws
PlanAnswered ==
  /\ planStage = "awaiting"
  /\ \E resp \in PlanServiceResponses :
       LET out == GetPracticePlanResult(resp)
       IN IF out.ok
          THEN planStage' = "returned" /\ planResult' = [items |-> out.value]
          ELSE planStage' = "thrown" /\ UNCHANGED planResult
  /\ UNCHANGED <<planEvaluation, planRequests, appVars, wsVars, tsVars, gwVars, esVars, tableVars>>

PlanNext == PlanCalled \/ PlanAnswered

SpecPlan == PlanInit /\ [][PlanNext]_vars

----------------------------------------------------------------------------
(* TableRenderer on its own, applied to every chart data of a bounded set. *)
(* A data string is [text |-> <<...>>], a sequence of tokens: "\n", ",",    *)
(* " " (a whitespace character other than a newline) and any other string, *)
(* which stands for text without whitespace or commas.  Undefined is the   *)
(* data prop of a chartData that came without its data field.              *)

MaxDataLen == 5     \* tokens of a chart data string

Undefined == [undefined |-> TRUE]

TableTokens == {"a", " ", ",", "\n"}

ExampleTableData ==
  <<"Year", ",", "Revenue", "\n", "2022", ",", "5M", "\n", "2023", ",", "8M">>

TableInputs ==
  {[text |-> t] : t \in SeqsUpTo(TableTokens, MaxDataLen) \cup {ExampleTableData}}
    \cup {Undefined}

IsWhitespace(c) == c \in {" ", "\n"}

RECURSIVE SplitOn(_, _)
\* String.prototype.split(sep): the pieces between the separators, empty ones included
SplitOn(s, sep) ==
  IF \A i \in DOMAIN s : s[i] # sep
  THEN <<s>>
  ELSE LET k == CHOOSE i \in DOMAIN s : s[i] = sep /\ \A j \in 1..(i - 1) : s[j] # sep
       IN <<SubSeq(s, 1, k - 1)>> \o SplitOn(SubSeq(s, k + 1, Len(s)), sep)

RECURSIVE Trim(_)
\* String.prototype.trim()
Trim(s) ==
  IF s = <<>> THEN s
  ELSE IF IsWhitespace(Head(s)) THEN Trim(Tail(s))
  ELSE IF IsWhitespace(s[Len(s)]) THEN Trim(SubSeq(s, 1, Len(s) - 1))
  ELSE s

\* mutant of IsBlankRow: row !== ''
IsEmptyRow(row) == row = <<>>

\* the rows that filter(row => row.trim() !== '') drops
IsBlankRow(row) == Trim(row) = <<>>

\* row.split(',').map(cell => cell.trim())
Cells(row) == LET parts == SplitOn(row, ",") IN [i \in DOMAIN parts |-> Trim(parts[i])]

\* what TableRenderer renders: the table, the 'Table data is invalid.' paragraph, or
\* the 'Could not display the table data.' paragraph of its catch block
TableRendererResult(data) ==
  IF data = Undefined
  THEN [kind |-> "error"]
  ELSE LET rows == SelectSeq(SplitOn(data.text, "\n"), LAMBDA row : ~IsBlankRow(row))
       IN IF Len(rows) < 2
          THEN [kind |-> "invalid"]
          ELSE [kind |-> "table",
                headers |-> Cells(rows[1]),
                bodyRows |-> [i \in 1..(Len(rows) - 1) |-> Cells(rows[i + 1])]]

TableInit ==
  /\ appState = "welcome"
  /\ evaluation = Null
  /\ practicePlan = Null
  /\ comprehensiveTest = Null
  /\ userAnswers = Null
  /\ videoUrl = <<>>
  /\ error = NullStr
  /\ testType = NullStr
  /\ wsVideoUrl = DefaultVideoUrl
  /\ wsTranscript = EmptyTranscript
  /\ validationError = ""
  /\ currentSection = "listening"
  /\ answers = InitialAnswers
  /\ isListening = FALSE
  /\ transcript = ""
  /\ currentSpeakingQuestionIndex = 0
  /\ recognizing = "idle"
  /\ recognitionQuestion = -1
  /\ inflight = <<>>
  /\ gatewayLog = <<>>
  /\ planEvaluation = Null
  /\ planStage = "unused"
  /\ planRequests = <<>>
  /\ planResult = Null
  /\ EvaluationScreenInitial
  /\ tableData \in TableInputs
  /\ tableResult = Null

\* TableRenderer is rendered with tableData as its data prop
RenderTable ==
  /\ tableResult = Null
  /\ tableResult' = TableRendererResult(tableData)
  /\ UNCHANGED <<tableData, appVars, wsVars, tsVars, gwVars, planVars, esVars>>

TableNext == RenderTable

SpecTable == TableInit /\ [][TableNext]_vars

----------------------------------------------------------------------------
(* EvaluationScreen on its own: the results of a bounded set of evaluations *)
(* and practice plans are shown, exported, left by restart and shown again. *)
(* A report is a sequence of lines [template, args]: the literal text of    *)
(* the line with ${} for each interpolated value, and the values; <fence>  *)
(* is the line of three backquotes that opens or closes a code block.      *)

MaxExports == 2     \* html2canvas renderings in flight

MainSkills == {"Listening", "Reading", "Writing", "Speaking"}

\* evaluation?.detailedScores.filter(s => [...].includes(s.criterion)) || []
MainScores(e) ==
  IF e = Null THEN <<>>
  ELSE SelectSeq(e.detailedScores, LAMBDA s : s.criterion \in MainSkills)

\* mutant of DetailedCriteria: the filter is forgotten
DetailedCriteriaUnfiltered(e) ==
  IF e = Null THEN <<>> ELSE e.detailedScores

\* evaluation?.detailedScores.filter(s => ![...].includes(s.criterion)) || []
DetailedCriteria(e) ==
  IF e = Null THEN <<>>
  ELSE SelectSeq(e.detailedScores, LAMBDA s : s.criterion \notin MainSkills)

\* Number.prototype.toFixed(1) of a score in hundredths: the number of tenths,
\* rounded half up ("7.5" is 75)
ToFixed1(score) == (score + 5) \div 10

\* answer || "No answer provided."
OrNoAnswer(answer) == IF answer = "" THEN "No answer provided." ELSE answer

Line(template, args) == [template |-> template, args |-> args]

RECURSIVE Flatten(_)
\* forEach: the lines appended for each item, in order
Flatten(seqs) == IF seqs = <<>> THEN <<>> ELSE Head(seqs) \o Flatten(Tail(seqs))

MainScoreLines(score, index) ==
  <<Line("| ${} | ${} |", <<score.criterion, ToFixed1(score.score)>>)>>

DetailedCriterionLines(item, index) ==
  <<Line("### ${}: ${}", <<item.criterion, ToFixed1(item.score)>>),
    Line("${}", <<item.feedback>>)>>

PracticeItemLines(item, index) ==
  <<Line("### ${}", <<item.title>>),
    Line("**Focus Area:** ${}", <<item.area>>),
    Line("${}", <<item.description>>),
    Line("**Exercise:**", <<>>),
    Line("<fence>${}<fence>", <<item.exercise>>)>>

\* the markdownContent of handleSaveAsMarkdown
MarkdownContent(e, plan, ans, testContent) ==
  LET SpeakingLines(item, index) ==
        <<Line("### Speaking Question: \"${}\"", <<item.question>>),
          Line("#### Your Answer", <<>>),
          Line("<fence>${}<fence>", <<IF index \in DOMAIN ans.speaking
                               THEN OrNoAnswer(ans.speaking[index].answer)
                               ELSE "No answer provided.">>),
          Line("#### Model Answer (Band 7.5)", <<>>),
          Line("<fence>${}<fence>", <<item.improvedAnswer>>)>>
  IN <<Line("# IELTS Evaluation Report", <<>>)>>
     \o (IF e # Null
         THEN <<Line("## Overall Band Score: ${}", <<ToFixed1(e.overallBandScore)>>),
                Line("| Section   | Score |", <<>>),
                Line("|-----------|-------|", <<>>)>>
              \o Flatten([i \in DOMAIN MainScores(e) |-> MainScoreLines(MainScores(e)[i], i)])
              \o <<Line("", <<>>),
                   Line("## Examiner's Summary", <<>>),
                   Line("${}", <<e.summary>>),
                   Line("## Detailed Feedback", <<>>)>>
              \o Flatten([i \in DOMAIN DetailedCriteria(e) |-> DetailedCriterionLines(DetailedCriteria(e)[i], i)])
              \o <<Line("## Path to Band 7.5: Model Answers", <<>>),
                   Line("### Writing Task 1", <<>>),
                   Line("#### Question", <<>>),
                   Line("${}", <<testContent.writing.task1.prompt>>),
                   Line("#### Your Answer", <<>>),
                   Line("<fence>${}<fence>", <<OrNoAnswer(ans.writing.task1)>>),
                   Line("#### Model Answer (Band 7.5)", <<>>),
                   Line("<fence>${}<fence>", <<e.improvedAnswers.writingTask1>>),
                   Line("### Writing Task 2", <<>>),
                   Line("#### Question", <<>>),
                   Line("${}", <<testContent.writing.task2>>),
                   Line("#### Your Answer", <<>>),
                   Line("<fence>${}<fence>", <<OrNoAnswer(ans.writing.task2)>>),
                   Line("#### Model Answer (Band 7.5)", <<>>),
                   Line("<fence>${}<fence>", <<e.improvedAnswers.writingTask2>>)>>
              \o Flatten([i \in DOMAIN e.improvedAnswers.speaking |-> SpeakingLines(e.improvedAnswers.speaking[i], i)])
         ELSE <<>>)
     \o (IF plan # Null
         THEN <<Line("## Your Personalized Practice Plan", <<>>)>>
              \o Flatten([i \in DOMAIN plan.items |-> PracticeItemLines(plan.items[i], i)])
         ELSE <<>>)

\* the criteria of the evaluations shown: a main skill, and two sub-criteria that
\* were given the same feedback
ReportCriteria ==
  {Criterion("Writing", 700, "clear"),
   Criterion("Writing - Task Achievement", 650, "hesitant"),
   Criterion("Speaking - Fluency and Coherence", 600, "hesitant")}

\* overall scores are in 0.5 increments, as the response schema asks
ReportEvaluations ==
  {MkEvaluation(overall, scores) :
     overall \in {650, 700}, scores \in SeqsUpTo(ReportCriteria, MaxCriteria)}

ReportPlans == {[items |-> MaintainExcellence], [items |-> ServicePlan(0)],
                [items |-> ServicePlan(3)]}

\* what App hands to EvaluationScreen: an evaluation and a plan, or neither
\* (listening and reading tests)
ReportProps ==
  {[evaluation |-> e, practicePlan |-> plan] : e \in ReportEvaluations, plan \in ReportPlans}
    \cup {[evaluation |-> Null, practicePlan |-> Null]}

ReportTest == MkTest(1, 1, "bar chart", TRUE, 1)

ReportAnswers == [InitialAnswers EXCEPT !.writing.task1 = "typed"]

EvaluationScreenInit ==
  /\ appState = "results"
  /\ \E props \in ReportProps :
       /\ evaluation = props.evaluation
       /\ practicePlan = props.practicePlan
  /\ comprehensiveTest = ReportTest
  /\ userAnswers = ReportAnswers
  /\ videoUrl = DefaultVideoUrl
  /\ error = NullStr
  /\ testType = "full"
  /\ wsVideoUrl = DefaultVideoUrl
  /\ wsTranscript = EmptyTranscript
  /\ validationError = ""
  /\ currentSection = "listening"
  /\ answers = InitialAnswers
  /\ isListening = FALSE
  /\ transcript = ""
  /\ currentSpeakingQuestionIndex = 0
  /\ recognizing = "idle"
  /\ recognitionQuestion = -1
  /\ inflight = <<>>
  /\ gatewayLog = <<>>
  /\ planEvaluation = Null
  /\ planStage = "unused"
  /\ planRequests = <<>>
  /\ planResult = Null
  /\ EvaluationScreenInitial
  /\ TableRendererUnused

\* the html2canvas and jspdf scripts finish loading
PdfToolsLoad ==
  /\ pdfTools = "loading"
  /\ pdfTools' = "loaded"
  /\ UNCHANGED <<isGeneratingPdf, isPdfReady, pdfExports, markdownFile,
                 appVars, wsVars, tsVars, gwVars, planVars, tableVars>>

\* the effect of EvaluationScreen, at mount or from its 200 ms interval
PdfReadyEffect ==
  /\ EvaluationScreenShown
  /\ pdfTools = "loaded"
  /\ ~isPdfReady
  /\ isPdfReady' = TRUE
  /\ UNCHANGED <<isGeneratingPdf, pdfTools, pdfExports, markdownFile,
                 appVars, wsVars, tsVars, gwVars, planVars, tableVars>>

\* mutant of PdfButtonEnabled: disabled={!isPdfReady}
PdfButtonEnabledWhileSaving == isPdfReady

\* the 'Save as PDF' button: disabled={!isPdfReady || isGeneratingPdf}
PdfButtonEnabled == ~(~isPdfReady \/ isGeneratingPdf)

\* EvaluationScreen.handleSaveAsPdf up to the html2canvas call
HandleSaveAsPdf ==
  /\ EvaluationScreenShown
  /\ PdfButtonEnabled
  /\ Len(pdfExports) < MaxExports
  /\ isGeneratingPdf' = TRUE
  /\ pdfExports' = Append(pdfExports, "live")
  /\ UNCHANGED <<isPdfReady, pdfTools, markdownFile,
                 appVars, wsVars, tsVars, gwVars, planVars, tableVars>>

\* the then or the catch callback of a rendering: the PDF is saved or the alert is
\* shown, and setIsGeneratingPdf(false), which is lost if the screen has gone
PdfExportSettles ==
  /\ \E i \in DOMAIN pdfExports :
       /\ pdfExports' = RemoveAt(pdfExports, i)
       /\ IF pdfExports[i] = "live"
          THEN isGeneratingPdf' = FALSE
          ELSE UNCHANGED isGeneratingPdf
  /\ UNCHANGED <<isPdfReady, pdfTools, markdownFile,
                 appVars, wsVars, tsVars, gwVars, planVars, tableVars>>

\* EvaluationScreen.handleSaveAsMarkdown
HandleSaveAsMarkdown ==
  /\ EvaluationScreenShown
  /\ markdownFile' = [lines |-> MarkdownContent(evaluation, practicePlan,
                                                userAnswers, comprehensiveTest)]
  /\ UNCHANGED <<isGeneratingPdf, isPdfReady, pdfTools, pdfExports,
                 appVars, wsVars, tsVars, gwVars, planVars, tableVars>>

\* after a restart, a later test is generated and completed: results are shown again
LaterSessionShowsResults ==
  /\ appState = "welcome"
  /\ Goto("results")
  /\ \E props \in ReportProps :
       /\ evaluation' = props.evaluation
       /\ practicePlan' = props.practicePlan
  /\ comprehensiveTest' = ReportTest
  /\ userAnswers' = ReportAnswers
  /\ videoUrl' = DefaultVideoUrl
  /\ error' = NullStr
  /\ testType' = "full"
  /\ UNCHANGED <<gwVars, planVars, esVars, tableVars>>

EvaluationScreenNext ==
  \/ PdfToolsLoad
  \/ PdfReadyEffect
  \/ HandleSaveAsPdf
  \/ PdfExportSettles
  \/ HandleSaveAsMarkdown
  \/ RestartTest
  \/ LaterSessionShowsResults

SpecEvaluationScreen == EvaluationScreenInit /\ [][EvaluationScreenNext]_vars

----------------------------------------------------------------------------
(* TestScreen alone: a mounted test screen whose sections have several
   questions, from its first render to the completion it signals *)

MaxEntryQuestions == 2

\* the test the screen is mounted with
EntryTest == MkTest(MaxEntryQuestions, MaxEntryQuestions, "table", TRUE, 1)

TestScreenInit ==
  /\ appState = "test"
  /\ evaluation = Null
  /\ practicePlan = Null
  /\ comprehensiveTest = EntryTest
  /\ userAnswers = Null
  /\ videoUrl = DefaultVideoUrl
  /\ error = NullStr
  /\ testType \in TestTypes
  /\ wsVideoUrl = DefaultVideoUrl
  /\ wsTranscript = EmptyTranscript
  /\ validationError = ""
  /\ currentSection = GetInitialSection(testType)
  /\ answers = InitialAnswers
  /\ isListening = FALSE
  /\ transcript = ""
  /\ currentSpeakingQuestionIndex = 0
  /\ recognizing = "idle"
  /\ recognitionQuestion = -1
  /\ inflight = <<>>
  /\ gatewayLog = <<>>
  /\ planEvaluation = Null
  /\ planStage = "unused"
  /\ planRequests = <<>>
  /\ planResult = Null
  /\ EvaluationScreenInitial
  /\ TableRendererUnused

TestScreenNext ==
  \/ \E section \in {"listening", "reading"}, index \in 0..(MaxEntryQuestions - 1),
        value \in Texts :
       HandleAnswerChange(section, index, value)
  \/ \E task \in {"task1", "task2"}, value \in Texts : HandleWritingChange(task, value)
  \/ NextSection
  \/ \E value \in Texts : EditTranscript(value)
  \/ HandleNextSpeakingQuestion

SpecTestScreen == TestScreenInit /\ [][TestScreenNext]_vars

----------------------------------------------------------------------------
(* Properties *)

Last(s) == s[Len(s)]

\* the operations of the requests in flight, in the order they were sent
Ops(calls) == [i \in DOMAIN calls |-> calls[i].op]

\* this step appends `entry` to the gateway log as its last entry
Logs(entry) ==
  /\ gatewayLog' # gatewayLog
  /\ Len(gatewayLog') > 0
  /\ Last(gatewayLog') = entry

ObjectiveTypes == {"listening", "reading"}
SubjectiveTypes == {"writing", "speaking", "full"}

C1_SubmissionIsValidated_Step ==
  (\E type \in TestTypes : HandleStart(type)) =>
    IF YoutubeRegexTest(wsVideoUrl) /\ wsTranscript.core >= MinTranscriptLength
    THEN /\ appState' = "generating"
         /\ Ops(inflight') = <<"generate">>
    ELSE /\ appState' = "welcome"
         /\ validationError' # ""
         /\ inflight' = inflight
         /\ gatewayLog' = gatewayLog

\* C1: a submission from welcome whose URL matches the video-URL pattern and whose
\* transcript has at least 50 characters after trimming moves the workflow to
\* generating; any other submission leaves it in welcome, sets a non-empty
\* validation message and issues no gateway call.
C1_SubmissionIsValidated ==
  [][C1_SubmissionIsValidated_Step]_vars

\* a transcript of 50 characters or more was refused because it is shorter than 50
\* once trimmed, after an earlier submission had been accepted
C1_Witness ==
  /\ appState = "welcome"
  /\ validationError = TranscriptError
  /\ wsTranscript.lead + wsTranscript.core + wsTranscript.trail >= MinTranscriptLength
  /\ Len(gatewayLog) > 0
  /\ gatewayLog[1] = Called("generate")

C2_ObjectiveCompletionSkipsEvaluation_Step ==
  testType \in ObjectiveTypes =>
    /\ NextSection =>
         /\ appState' = "results"
         /\ evaluation' = Null
         /\ practicePlan' = Null
         /\ userAnswers' = answers
         /\ gatewayLog' = <<>>
         /\ inflight' = <<>>
    /\ appState' # "evaluating"
    /\ \A i \in DOMAIN inflight' : inflight'[i].op \notin {"evaluate", "plan"}

\* C2: for test types listening and reading, signalling completion from the test
\* state moves the workflow directly to results, with Evaluation and PracticePlan
\* null, no request in flight and no evaluate or practice-plan call; for these
\* types the workflow is never in evaluating.
C2_ObjectiveCompletionSkipsEvaluation ==
  [][C2_ObjectiveCompletionSkipsEvaluation_Step]_vars

\* a reading test was completed with an answer entered
C2_Witness ==
  /\ appState = "results"
  /\ testType = "reading"
  /\ userAnswers # Null
  /\ userAnswers.reading # EmptyMap
  /\ evaluation = Null
  /\ practicePlan = Null

EvaluateSucceeded == <<Called("evaluate"), <<"evaluate", "json">>, Called("plan")>>

C3_EvaluateThenPlan_Step ==
  (testType \in SubjectiveTypes /\ appState = "test" /\ appState' # "test") =>
    /\ appState' = "evaluating"
    /\ gatewayLog' = <<Called("evaluate")>>

\* C3: for test types writing, speaking and full, each completion calls evaluate
\* once; getPracticePlan is called once, and only after the evaluate call has
\* returned successfully; the workflow is in results only after both have succeeded.
C3_EvaluateThenPlan ==
  /\ [][C3_EvaluateThenPlan_Step]_vars
  /\ [](appState = "evaluating" =>
          \/ gatewayLog = <<Called("evaluate")>> /\ Ops(inflight) = <<"evaluate">>
          \/ gatewayLog = EvaluateSucceeded /\ Ops(inflight) = <<"plan">>)
  /\ []((appState = "results" /\ testType \in SubjectiveTypes) =>
          /\ \/ gatewayLog = Append(EvaluateSucceeded, <<"plan", "json">>)
             \/ gatewayLog = Append(EvaluateSucceeded, <<"plan", "local">>)
          /\ inflight = <<>>
          /\ evaluation # Null
          /\ practicePlan # Null)

\* a full test reached results through a practice plan requested from the service
C3_Witness ==
  /\ appState = "results"
  /\ testType = "full"
  /\ gatewayLog = Append(EvaluateSucceeded, <<"plan", "json">>)

EvaluationFailures ==
  {<<"evaluate", "garbage">>, <<"evaluate", "rejected">>,
   <<"plan", "garbage">>, <<"plan", "rejected">>}

C4_EvaluationFailureReturnsToTest_Step ==
  (\E failure \in EvaluationFailures : Logs(failure)) =>
    /\ appState = "evaluating"
    /\ appState' = "test"
    /\ error' = EvaluationError

\* C4: when the evaluate call or the practice-plan call fails (the request is
\* rejected or its answer does not parse), the workflow goes from evaluating to
\* test and the evaluation error message is set.
C4_EvaluationFailureReturnsToTest ==
  [][C4_EvaluationFailureReturnsToTest_Step]_vars

\* the practice-plan request of a writing test failed
C4_Witness ==
  /\ appState = "test"
  /\ error = EvaluationError
  /\ Len(gatewayLog) > 0
  /\ Last(gatewayLog) = <<"plan", "rejected">>

C5_AnswersSurviveEvaluationFailure_Step ==
  (\E failure \in EvaluationFailures : Logs(failure)) => answers' = userAnswers

\* C5: after an evaluation or practice-plan failure returns the workflow to test,
\* the AnswerSet held by the test-taking flow still contains every answer the user
\* had entered before completion (the answers given to the workflow at completion).
C5_AnswersSurviveEvaluationFailure ==
  [][C5_AnswersSurviveEvaluationFailure_Step]_vars

GenerationFailures ==
  {<<"generate", "garbage">>, <<"generate", "rejected">>,
   <<"chart", "no image">>, <<"chart", "rejected">>}

C6_GenerationFailureReturnsToWelcome_Step ==
  /\ (\E failure \in GenerationFailures : Logs(failure)) =>
       /\ appState = "generating"
       /\ appState' = "welcome"
       /\ error' = GenerationError
       /\ comprehensiveTest' = Null
       /\ inflight' = <<>>
  /\ appState = "welcome" =>
       /\ appState' \in {"welcome", "generating"}
       /\ comprehensiveTest' = Null

\* C6: when the test-generation call fails or returns unparseable content, or the
\* chart-image call fails or returns no image, the workflow goes from generating to
\* welcome with the generation error message set and no test content stored; the
\* workflow leaves welcome only for generating, so that submission never enters test.
C6_GenerationFailureReturnsToWelcome ==
  [][C6_GenerationFailureReturnsToWelcome_Step]_vars

\* the service returned no chart image
C6_Witness ==
  /\ appState = "welcome"
  /\ error = GenerationError
  /\ Len(gatewayLog) > 0
  /\ Last(gatewayLog) = <<"chart", "no image">>

ChartType(testContent) == testContent.writing.task1.chartData.type

C7_ChartImageBeforeTest_Step ==
  (appState = "generating" /\ appState' = "test") =>
    IF ChartType(comprehensiveTest') = "table"
    THEN /\ gatewayLog' = <<Called("generate"), <<"generate", "json">> >>
         /\ comprehensiveTest'.writing.task1.chartImage = NoImage
    ELSE /\ gatewayLog' = <<Called("generate"), <<"generate", "json">>,
                            Called("chart"), <<"chart", "image">> >>
         /\ comprehensiveTest'.writing.task1.chartImage = "png"

C8_RestartClearsSession_Step ==
  (appState = "results" /\ appState' # "results") =>
    /\ appState' = "welcome"
    /\ comprehensiveTest' = Null
    /\ userAnswers' = Null
    /\ evaluation' = Null
    /\ practicePlan' = Null
    /\ error' = NullStr
    /\ videoUrl' = <<>>
    /\ testType' = NullStr

\* C8: restart from results moves the workflow to welcome and leaves test content,
\* user answers, evaluation, practice plan, error message, video URL and test type
\* cleared.
C8_RestartClearsSession ==
  [][C8_RestartClearsSession_Step]_vars

\* welcome was reached by a restart from the results of an evaluated test
C8_Witness ==
  /\ appState = "welcome"
  /\ Len(gatewayLog) > 0
  /\ Last(gatewayLog) = <<"plan", "json">>
  /\ videoUrl = <<>>

\* C9: in every reachable state at most one gateway request has been issued and
\* not yet answered.
C9_AtMostOneRequestInFlight == Len(inflight) <= 1

\* completion was signalled again after a practice-plan failure: one evaluate
\* request is in flight
C9_Witness ==
  /\ appState = "evaluating"
  /\ evaluation # Null
  /\ Ops(inflight) = <<"evaluate">>

\* C10: getPracticePlan applied to an evaluation whose criteria all score at least
\* 7.5 (or that has no criteria) returns the one fixed item and sends no request.
C10_NoWeaknessGivesFixedPlan ==
  (\A i \in DOMAIN planEvaluation.detailedScores :
     planEvaluation.detailedScores[i].score >= BandThreshold) =>
    /\ planRequests = <<>>
    /\ planStage \in {"init", "returned"}
    /\ planStage = "returned" =>
         /\ Len(planResult.items) = 1
         /\ planResult.items = MaintainExcellence

\* the fixed plan was returned for a criterion that scores exactly 7.5
C10_Witness ==
  /\ planStage = "returned"
  /\ Len(planEvaluation.detailedScores) > 0
  /\ \A i \in DOMAIN planEvaluation.detailedScores :
       planEvaluation.detailedScores[i].score = BandThreshold
  /\ planRequests = <<>>
  /\ planResult.items = MaintainExcellence

\* the criteria of the evaluation given to getPracticePlan that score below 7.5
PlanWeakIndexes ==
  {i \in DOMAIN planEvaluation.detailedScores :
     planEvaluation.detailedScores[i].score < BandThreshold}

\* C11: getPracticePlan applied to an evaluation with at least one criterion below
\* 7.5 returns exactly three practice items, whatever the service responds.
C11_WeaknessGivesThreeItems ==
  (PlanWeakIndexes # {} /\ planStage = "returned") => Len(planResult.items) = 3

\* C12: when getPracticePlan sends a request, the criteria listed in it are exactly
\* the criteria of the evaluation that score strictly below 7.5, each listed once;
\* a request is sent if and only if there is such a criterion.
C12_RequestListsWeakCriteria ==
  /\ planStage # "init" => (Len(planRequests) = 1 <=> PlanWeakIndexes # {})
  /\ \A r \in DOMAIN planRequests :
       LET weakest == planRequests[r].prompt.weakest
       IN /\ {weakest[i] : i \in DOMAIN weakest}
               = {planEvaluation.detailedScores[i] : i \in PlanWeakIndexes}
          /\ Len(weakest) = Cardinality(PlanWeakIndexes)
          /\ \A i \in DOMAIN weakest : weakest[i].score < BandThreshold

\* a request was sent for an evaluation with one criterion just below 7.5 and one
\* at exactly 7.5: it lists the first alone
C12_Witness ==
  /\ planStage = "awaiting"
  /\ Len(planEvaluation.detailedScores) = 2
  /\ planEvaluation.detailedScores[1].score = BandThreshold - 1
  /\ planEvaluation.detailedScores[2].score = BandThreshold
  /\ Len(planRequests) = 1
  /\ planRequests[1].prompt.weakest = <<planEvaluation.detailedScores[1]>>

\* the {question, answer} pair of the speaking question shown now
C13_CurrentPair ==
  [question |-> QuestionText("speaking", currentSpeakingQuestionIndex + 1),
   answer |-> transcript]

C13_SpeakingAdvance_Step ==
  /\ HandleNextSpeakingQuestion =>
       IF currentSpeakingQuestionIndex + 1 < Len(comprehensiveTest.speaking)
       THEN /\ answers'.speaking = Append(answers.speaking, C13_CurrentPair)
            /\ transcript' = ""
            /\ currentSpeakingQuestionIndex' = currentSpeakingQuestionIndex + 1
            /\ appState' = "test"
            /\ userAnswers' = userAnswers
       ELSE /\ appState' \in {"evaluating", "results"}
            /\ userAnswers' = [answers EXCEPT !.speaking = Append(@, C13_CurrentPair)]
            /\ Len(userAnswers'.speaking) = Len(comprehensiveTest.speaking)
  /\ (TestScreenShown(appState) /\ TestScreenShown(appState')) =>
       /\ Len(answers'.speaking) >= Len(answers.speaking)
       /\ \A i \in DOMAIN answers.speaking : answers'.speaking[i] = answers.speaking[i]

\* C13: in the speaking flow with N >= 1 questions, advancing on a non-last question
\* appends the pair of the current question's text and the current buffer, clears
\* the buffer and increments the pointer; advancing on the last question signals
\* completion with N speaking entries; entries are never changed once appended, and
\* entry i carries the text of question i.
C13_SpeakingAdvance ==
  /\ [][C13_SpeakingAdvance_Step]_vars
  /\ [](TestScreenShown(appState) =>
          /\ Len(answers.speaking) = currentSpeakingQuestionIndex
          /\ \A i \in DOMAIN answers.speaking :
               answers.speaking[i].question = QuestionText("speaking", i))
  /\ [](userAnswers # Null =>
          \A i \in DOMAIN userAnswers.speaking :
            userAnswers.speaking[i].question = QuestionText("speaking", i))

\* a speaking test of two questions was completed, the first answered by speech
\* and the second by typing
C13_Witness ==
  /\ userAnswers # Null
  /\ comprehensiveTest # Null
  /\ Len(comprehensiveTest.speaking) >= 2
  /\ Len(userAnswers.speaking) = Len(comprehensiveTest.speaking)
  /\ userAnswers.speaking[1].answer = "spoken"
  /\ userAnswers.speaking[2].answer = "typed"

\* the lines of the table data, as pairs of the positions that enclose them
\* (position 0, the newlines, the position after the last token)
C14_Breaks(text) == {0, Len(text) + 1} \cup {i \in DOMAIN text : text[i] = "\n"}

C14_Lines(text) ==
  {<<b, e>> \in C14_Breaks(text) \X C14_Breaks(text) :
     b < e /\ \A k \in (b + 1)..(e - 1) : text[k] # "\n"}

C14_NonBlankLines(text) ==
  {l \in C14_Lines(text) : \E k \in (l[1] + 1)..(l[2] - 1) : text[k] # " "}

\* the non-blank line number n (from 1), as a pair of positions
C14_NthLine(text, n) ==
  CHOOSE l \in C14_NonBlankLines(text) :
    Cardinality({m \in C14_NonBlankLines(text) : m[1] < l[1]}) = n - 1

\* the text of a line without its spaces
C14_Ink(text, l) == SelectSeq(SubSeq(text, l[1] + 1, l[2] - 1), LAMBDA c : c # " ")

RECURSIVE C14_Join(_)
\* the cells of a row joined by commas, without their spaces
C14_Join(cells) ==
  IF cells = <<>> THEN <<>>
  ELSE SelectSeq(Head(cells), LAMBDA c : c # " ")
         \o (IF Len(cells) > 1 THEN <<",">> ELSE <<>>) \o C14_Join(Tail(cells))

\* a cell is trimmed text of one line between two commas
C14_IsCell(cell) ==
  /\ \A i \in DOMAIN cell : cell[i] \notin {",", "\n"}
  /\ cell # <<>> => (cell[1] # " " /\ cell[Len(cell)] # " ")

C14_RowIsLine(cells, text, n) ==
  /\ Len(cells) >= 1
  /\ \A i \in DOMAIN cells : C14_IsCell(cells[i])
  /\ C14_Join(cells) = C14_Ink(text, C14_NthLine(text, n))

\* C14: TableRenderer drops the blank lines of the data, takes the comma-separated
\* trimmed cells of the first remaining line as headers and of each further line
\* as one body row; the example of the specification gives headers [Year, Revenue]
\* and rows [2022, 5M], [2023, 8M]; a data string with fewer than two non-blank
\* lines gives the 'invalid table' result and never the error result.
C14_TableParse ==
  (tableResult # Null /\ tableData # Undefined) =>
    LET text == tableData.text
        n == Cardinality(C14_NonBlankLines(text))
    IN /\ tableResult.kind # "error"
       /\ tableResult.kind = "invalid" <=> n < 2
       /\ tableResult.kind = "table" =>
            /\ C14_RowIsLine(tableResult.headers, text, 1)
            /\ Len(tableResult.bodyRows) = n - 1
            /\ \A r \in DOMAIN tableResult.bodyRows :
                 C14_RowIsLine(tableResult.bodyRows[r], text, r + 1)
       /\ text = ExampleTableData =>
            tableResult = [kind |-> "table",
                           headers |-> << <<"Year">>, <<"Revenue">> >>,
                           bodyRows |-> << << <<"2022">>, <<"5M">> >>,
                                           << <<"2023">>, <<"8M">> >> >>]

\* the example of the specification was rendered as a table
C14_Witness ==
  /\ tableData = [text |-> ExampleTableData]
  /\ tableResult # Null
  /\ tableResult.kind = "table"
  /\ Len(tableResult.bodyRows) = 2

\* reading a report back: the values of the lines with a given template
C15_Values(lines, template) ==
  LET hits == SelectSeq(lines, LAMBDA l : l.template = template)
  IN [i \in DOMAIN hits |-> hits[i].args]

\* reading a report back: the values of the lines that follow a line with a given
\* template
C15_ValuesAfter(lines, template) ==
  LET marked == [i \in DOMAIN lines |->
                   [line |-> lines[i],
                    hit |-> i > 1 /\ lines[IF i > 1 THEN i - 1 ELSE 1].template = template]]
      hits == SelectSeq(marked, LAMBDA m : m.hit)
  IN [i \in DOMAIN hits |-> hits[i].line.args]

\* the criteria of the evaluation shown that are not one of the four main skills
C15_Detailed ==
  SelectSeq(evaluation.detailedScores,
            LAMBDA s : s.criterion \notin {"Listening", "Reading", "Writing", "Speaking"})

C15_MarkdownHoldsEachOnce_Step ==
  (HandleSaveAsMarkdown /\ evaluation # Null /\ practicePlan # Null) =>
    LET lines == markdownFile'.lines
        overall == C15_Values(lines, "## Overall Band Score: ${}")
    IN /\ Len(overall) = 1
       /\ overall[1][1] * 10 = evaluation.overallBandScore
       /\ C15_ValuesAfter(lines, "### ${}: ${}")
            = [i \in DOMAIN C15_Detailed |-> <<C15_Detailed[i].feedback>>]
       /\ C15_ValuesAfter(lines, "**Exercise:**")
            = [i \in DOMAIN practicePlan.items |-> <<practicePlan.items[i].exercise>>]

\* C15: the Markdown export built from an evaluation and a practice plan holds the
\* overall band score once, the feedback of every detailed (non main-skill)
\* criterion once, and the exercise of every practice-plan item once: read back,
\* the report gives the overall score, the feedbacks in the order of the criteria
\* and the exercises in the order of the items, and nothing more.
C15_MarkdownHoldsEachOnce ==
  [][C15_MarkdownHoldsEachOnce_Step]_vars

\* a report was downloaded for an evaluation with a main skill and a sub-criterion
\* and a plan of three items
C15_Witness ==
  /\ markdownFile # Null
  /\ evaluation # Null
  /\ practicePlan # Null
  /\ Len(evaluation.detailedScores) = 2
  /\ evaluation.detailedScores[1].criterion = "Writing"
  /\ evaluation.detailedScores[2].criterion = "Speaking - Fluency and Coherence"
  /\ Len(practicePlan.items) = 3
  /\ markdownFile.lines = MarkdownContent(evaluation, practicePlan, userAnswers,
                                          comprehensiveTest)

C16_EvaluationStoredOnce_Step ==
  evaluation # Null =>
    \/ evaluation' = evaluation
    \/ appState = "results" /\ appState' = "welcome" /\ evaluation' = Null

\* C16: within one session, once an evaluation is stored it is never replaced or
\* changed until restart, over every sequence of completions and failures.
C16_EvaluationStoredOnce ==
  [][C16_EvaluationStoredOnce_Step]_vars

C17_GenerationFailureDiscardsInputs_Step ==
  (\E failure \in GenerationFailures : Logs(failure)) =>
    /\ appState' = "welcome"
    /\ wsTranscript' = EmptyTranscript
    /\ videoUrl' = <<>>
    /\ testType' = NullStr
    /\ \A i \in DOMAIN inflight' : inflight'[i].op # "generate"

\* C17: after a generation failure returns the workflow to welcome, the session
\* holds no video URL, transcript or test type of the failed submission.
C17_GenerationFailureDiscardsInputs ==
  [][C17_GenerationFailureDiscardsInputs_Step]_vars

\* the section that follows a section in the order of the test
C18_Following(section) ==
  CASE section = "listening" -> "reading"
    [] section = "reading" -> "writing"
    [] section = "writing" -> "speaking"

C18_SectionAdvance_Step ==
  NextSection =>
    IF testType = "full"
    THEN /\ currentSection' = C18_Following(currentSection)
         /\ appState' = "test"
         /\ answers' = answers
         /\ userAnswers' = userAnswers
         /\ inflight' = inflight
         /\ gatewayLog' = gatewayLog
    ELSE /\ testType \in {"listening", "reading", "writing"}
         /\ currentSection = testType
         /\ appState' \in {"evaluating", "results"}
         /\ userAnswers' = answers

\* C18: section advance from a non-speaking section moves a full test to the next
\* section in the order listening, reading, writing, speaking without signalling
\* completion; for a single-section test it signals completion with the current
\* answers at once, and the section shown is never another than the test's own.
C18_SectionAdvance ==
  /\ [][C18_SectionAdvance_Step]_vars
  /\ []((TestScreenShown(appState) /\ testType # "full") => currentSection = testType)

\* a full test was advanced to its writing section with a reading answer entered
C18_Witness ==
  /\ appState = "test"
  /\ testType = "full"
  /\ currentSection = "writing"
  /\ answers.reading # EmptyMap
  /\ userAnswers = Null

\* the place of a section in the order listening, reading, writing, speaking
C19_Place(section) ==
  CASE section = "listening" -> 1
    [] section = "reading" -> 2
    [] section = "writing" -> 3
    [] section = "speaking" -> 4

C19_NoBackNavigation_Step ==
  (TestScreenShown(appState) /\ TestScreenShown(appState')) =>
    /\ C19_Place(currentSection') >= C19_Place(currentSection)
    /\ currentSpeakingQuestionIndex' >= currentSpeakingQuestionIndex

\* C19: from a successful generation until restart, the section shown never moves
\* to a section earlier in the order than one already shown, and the speaking
\* question pointer never decreases.  While the test screen is shown the section
\* and the pointer do not go back from one step to the next; and when answers were
\* already delivered in this session (userAnswers is set: they are delivered from
\* the speaking section of a full test, and from the last speaking question), the
\* screen shows no earlier section and no earlier question than those.
C19_NoBackNavigation ==
  /\ [][C19_NoBackNavigation_Step]_vars
  /\ []((TestScreenShown(appState) /\ userAnswers # Null) =>
          /\ (testType = "full" /\ userAnswers.speaking # <<>>) =>
               currentSection = "speaking"
          /\ currentSpeakingQuestionIndex >= Len(userAnswers.speaking) - 1)

\* this step starts a PDF rendering
C20_ExportStarts == Len(pdfExports') > Len(pdfExports)

\* the renderings in flight that the screen shown now has started
C20_Live(exports) == {i \in DOMAIN exports : exports[i] = "live"}

C20_OnePdfExportInFlight_Step ==
  C20_ExportStarts =>
    /\ isPdfReady
    /\ pdfTools = "loaded"
    /\ pdfExports = <<>>
    /\ isGeneratingPdf'

C20_OnePdfExportPerScreen_Step ==
  /\ C20_ExportStarts =>
       /\ isPdfReady
       /\ pdfTools = "loaded"
       /\ ~isGeneratingPdf
       /\ C20_Live(pdfExports) = {}
       /\ isGeneratingPdf'
       /\ Last(pdfExports') = "live"
  /\ (isGeneratingPdf /\ ~isGeneratingPdf') =>
       \/ appState = "results" /\ appState' # "results"
       \/ C20_Live(pdfExports) # {} /\ C20_Live(pdfExports') = {}

C21_StopFreezesBuffer_Step ==
  (/\ TestScreenShown(appState) /\ TestScreenShown(appState')
   /\ ~isListening /\ ~isListening'
   /\ transcript' # transcript) =>
    \/ \E value \in Texts : EditTranscript(value)
    \/ HandleNextSpeakingQuestion

\* C21: while no recording is running, the speaking answer buffer is changed only
\* by the user's edits or by advancing to the next question (and by starting a new
\* recording): no transcription result delivered after the stop changes it.
C21_StopFreezesBuffer ==
  [][C21_StopFreezesBuffer_Step]_vars

C28_BufferBelongsToQuestion_Step ==
  /\ (HandleNextSpeakingQuestion /\ TestScreenShown(appState')) => transcript' = ""
  /\ (/\ TestScreenShown(appState) /\ TestScreenShown(appState')
      /\ recognitionQuestion # currentSpeakingQuestionIndex
      /\ transcript = "" /\ transcript' # "") =>
       \E value \in Texts : EditTranscript(value)

\* C28: after advancing to the next question the buffer is empty, and as long as no
\* recording was started on the question shown, an empty buffer gets text only by
\* the user's typing: a result of a recording started on an earlier question never
\* enters it.
C28_BufferBelongsToQuestion ==
  [][C28_BufferBelongsToQuestion_Step]_vars

\* the workflow waits for the gateway
C22_Waiting == appState \in {"generating", "evaluating"}

\* the events that come from the user
C22_UserEvent ==
  \/ \E url \in UrlInputs : SetVideoUrl(url)
  \/ \E text \in TranscriptInputs : SetTranscript(text)
  \/ \E type \in TestTypes : HandleStart(type)
  \/ \E section \in {"listening", "reading"}, index \in 0..(MaxQuestions - 1), value \in Texts :
       HandleAnswerChange(section, index, value)
  \/ \E task \in {"task1", "task2"}, value \in Texts : HandleWritingChange(task, value)
  \/ NextSection
  \/ ToggleRecording
  \/ \E value \in Texts : EditTranscript(value)
  \/ HandleNextSpeakingQuestion
  \/ RestartTest

C22_OnlyTheGatewayEndsAPhase_Step ==
  C22_Waiting =>
    /\ ~C22_UserEvent
    /\ Len(gatewayLog') > Len(gatewayLog)
    /\ \E k \in DOMAIN gatewayLog' :
         /\ k > Len(gatewayLog)
         /\ gatewayLog'[k][1] = inflight[1].op
         /\ gatewayLog'[k][2] \in {"json", "garbage", "rejected", "image", "no image"}

\* C22: while the workflow is in generating or evaluating, the only steps are the
\* answers of the service to the request in flight (so the workflow stays in its
\* phase for ever when no answer comes), one request is in flight, and no user
\* event is enabled.
C22_OnlyTheGatewayEndsAPhase ==
  /\ [][C22_OnlyTheGatewayEndsAPhase_Step]_vars
  /\ [](C22_Waiting => (Len(inflight) = 1 /\ ~ENABLED C22_UserEvent))

\* the workflow is evaluating and waits for the practice plan
C22_Witness ==
  /\ appState = "evaluating"
  /\ Ops(inflight) = <<"plan">>
  /\ ~ENABLED RestartTest

C23_AnswerFrame(section, index) ==
  /\ \A j \in (DOMAIN answers[section] \cup DOMAIN answers'[section]) \ {index} :
       /\ j \in DOMAIN answers[section]
       /\ j \in DOMAIN answers'[section]
       /\ answers'[section][j] = answers[section][j]
  /\ \A other \in {"listening", "reading", "writing", "speaking"} \ {section} :
       answers'[other] = answers[other]
  /\ currentSection' = currentSection
  /\ currentSpeakingQuestionIndex' = currentSpeakingQuestionIndex

C23_WritingFrame(task) ==
  /\ \A other \in {"task1", "task2"} \ {task} :
       answers'.writing[other] = answers.writing[other]
  /\ \A other \in {"listening", "reading", "speaking"} : answers'[other] = answers[other]
  /\ currentSection' = currentSection
  /\ currentSpeakingQuestionIndex' = currentSpeakingQuestionIndex

C23_EntryChangesOneAnswer_Step ==
  /\ \A section \in {"listening", "reading"}, index \in 0..(MaxEntryQuestions - 1),
        value \in Texts :
       HandleAnswerChange(section, index, value) => C23_AnswerFrame(section, index)
  /\ \A task \in {"task1", "task2"}, value \in Texts :
       HandleWritingChange(task, value) => C23_WritingFrame(task)

\* C23: entering a listening or reading answer for index i changes only entry i of
\* that section, and writing text changes only the field of that task; the other
\* entries and sections of the answers, the current section and the speaking
\* pointer stay as they were.
C23_EntryChangesOneAnswer == [][C23_EntryChangesOneAnswer_Step]_vars

\* two listening answers that differ, a reading answer and one writing task
\* typed are held together
C23_Witness ==
  /\ appState = "test"
  /\ DOMAIN answers.listening = 0..(MaxEntryQuestions - 1)
  /\ answers.listening[0] # answers.listening[1]
  /\ DOMAIN answers.reading = {1}
  /\ answers.writing.task1 = "typed"
  /\ answers.writing.task2 = ""
  /\ currentSection = "speaking"
  /\ currentSpeakingQuestionIndex = 0

\* C24: whenever the workflow is in test, the test content, the test type and a
\* non-empty video URL are set; whenever it is in results, the test content and
\* the user's answers are set: the branches of renderContent that restart the
\* test for lack of them are never taken.
C24_ScreensHaveTheirData ==
  /\ appState = "test" =>
       (comprehensiveTest # Null /\ testType # NullStr /\ videoUrl # <<>>)
  /\ appState = "results" => (comprehensiveTest # Null /\ userAnswers # Null)

\* the test screen is shown again after an evaluation that failed
C24_Witness ==
  /\ appState = "test"
  /\ error = EvaluationError
  /\ comprehensiveTest # Null
  /\ testType \in TestTypes
  /\ videoUrl # <<>>
  /\ userAnswers # Null

\* the results of a subjective test hold an evaluation and a plan
C25_ResultsAreComplete ==
  (appState = "results" /\ testType \in SubjectiveTypes) =>
    (evaluation # Null /\ practicePlan # Null)

\* the plan request in flight asks for the evaluation that is held
C25_PlanRequestIsForEvaluation ==
  (appState = "evaluating" /\ Ops(inflight) = <<"plan">>) =>
    /\ evaluation # Null
    /\ inflight[1].prompt = PlanPrompt(evaluation)

C25_ResultsComeFromThisCompletion_Step ==
  /\ (evaluation' # evaluation /\ evaluation' # Null) =>
       /\ appState = "evaluating"
       /\ gatewayLog = <<Called("evaluate")>>
       /\ Ops(inflight) = <<"evaluate">>
       /\ inflight[1].payload.userAnswers = userAnswers
       /\ inflight[1].payload.testContent = comprehensiveTest
       /\ evaluation' \in Evaluations
  /\ (appState = "evaluating" /\ appState' = "results") =>
       /\ evaluation' \in Evaluations
       /\ practicePlan' # Null
       /\ \/ /\ Ops(inflight) = <<"evaluate">>
             /\ Logs(<<"plan", "local">>)
             /\ Len(Weaknesses(evaluation')) = 0
             /\ practicePlan'.items = MaintainExcellence
          \/ /\ Ops(inflight) = <<"plan">>
             /\ Logs(<<"plan", "json">>)
             /\ evaluation' = evaluation
             /\ inflight[1].prompt = PlanPrompt(evaluation')
             /\ \E resp \in PlanResponses :
                  resp.kind = "json" /\ practicePlan'.items = resp.value

\* C25: in results of a writing, speaking or full test the evaluation and the
\* practice plan are both set; the evaluation is the answer to the evaluate call
\* of the completion that led there, and the plan is the fixed plan or the answer
\* to the plan request made for that same evaluation.
C25_ResultsBelongTogether ==
  /\ []C25_ResultsAreComplete
  /\ []C25_PlanRequestIsForEvaluation
  /\ [][C25_ResultsComeFromThisCompletion_Step]_vars

\* results of a writing test: an evaluation with a weak criterion and the three
\* items the service planned for it
C25_Witness ==
  /\ appState = "results"
  /\ testType = "writing"
  /\ evaluation # Null
  /\ Len(Weaknesses(evaluation)) > 0
  /\ practicePlan # Null
  /\ practicePlan.items = ServicePlan(3)
  /\ gatewayLog = <<Called("evaluate"), <<"evaluate", "json">>, Called("plan"),
                    <<"plan", "json">> >>

\* C26: a failed evaluation attempt leaves the evaluation and the practice plan
\* as they were before the attempt, so that both are null whenever the workflow
\* is in test.
C26_TestHoldsNoResults ==
  appState = "test" => (evaluation = Null /\ practicePlan = Null)

\* C27: for every test type and every test content the service can return,
\* sections without questions included, the test screen always offers the user
\* an action on the way to completion: the button that advances or submits the
\* section, or in the speaking section the button that records the answer or the
\* recording button that enables it.
C27_CompletionStaysPossible ==
  appState = "test" =>
    \/ ENABLED NextSection
    \/ ENABLED HandleNextSpeakingQuestion
    \/ (isListening /\ ENABLED ToggleRecording)

\* C29: while the test screen is in its speaking section with N >= 1 speaking
\* questions, the speaking pointer is in 0..N-1 and the number of speaking answers
\* recorded so far equals the pointer.
C29_PointerCountsAnswers ==
  (/\ appState = "test"
   /\ currentSection = "speaking"
   /\ Len(comprehensiveTest.speaking) >= 1) =>
    /\ currentSpeakingQuestionIndex \in 0..(Len(comprehensiveTest.speaking) - 1)
    /\ Len(answers.speaking) = currentSpeakingQuestionIndex

\* the second question is current and the answer to the first is recorded
C29_Witness ==
  /\ appState = "test"
  /\ currentSection = "speaking"
  /\ Len(comprehensiveTest.speaking) >= 2
  /\ currentSpeakingQuestionIndex = 1
  /\ Len(answers.speaking) = 1
  /\ answers.speaking[1].question = comprehensiveTest.speaking[1]

\* the entry of question `index` of a section: a value, or none
C30_Entry(held, section, index) ==
  IF index \in DOMAIN held[section] THEN <<held[section][index]>> ELSE <<>>

C30_AnswersAreDelivered_Step ==
  /\ \A section \in {"listening", "reading"}, index \in 0..(MaxEntryQuestions - 1) :
       /\ \A value \in Texts :
            HandleAnswerChange(section, index, value) =>
              C30_Entry(answers', section, index) = <<value>>
       /\ (/\ appState' = "test"
           /\ C30_Entry(answers', section, index) # C30_Entry(answers, section, index)) =>
            \E value \in Texts : HandleAnswerChange(section, index, value)
  /\ \A task \in {"task1", "task2"} :
       /\ \A value \in Texts :
            HandleWritingChange(task, value) => answers'.writing[task] = value
       /\ (appState' = "test" /\ answers'.writing[task] # answers.writing[task]) =>
            \E value \in Texts : HandleWritingChange(task, value)
  /\ (appState = "test" /\ appState' \in {"evaluating", "results"}) =>
       /\ userAnswers' # Null
       /\ userAnswers'.listening = answers.listening
       /\ userAnswers'.reading = answers.reading
       /\ userAnswers'.writing = answers.writing

\* C30: the answers delivered at completion hold, for every listening and
\* reading index and for both writing tasks, the last value entered, and no entry
\* (the empty string for a writing task) where nothing was entered, whether a
\* single section or the full test is completed: the screen starts with no
\* answers, an entry holds the value last entered for it until the next entry for
\* it, and the completion hands over the answers that are held.
C30_AnswersAreDelivered ==
  /\ answers = InitialAnswers
  /\ [][C30_AnswersAreDelivered_Step]_vars

\* a full test is completed: two listening answers, a reading answer for the second
\* question alone, one writing task, and the speaking answer
C30_Witness ==
  /\ appState = "evaluating"
  /\ testType = "full"
  /\ userAnswers # Null
  /\ DOMAIN userAnswers.listening = 0..(MaxEntryQuestions - 1)
  /\ userAnswers.listening[0] = "typed"
  /\ userAnswers.listening[1] = ""
  /\ DOMAIN userAnswers.reading = {1}
  /\ userAnswers.writing = [task1 |-> "typed", task2 |-> ""]
  /\ Len(userAnswers.speaking) = 1

====
